---- MODULE Spec2Model ----
(***************************************************************************)
(* A model of the MHF patch server (src/main.go): the manifest build       *)
(* (loadFolderData), the conditional /check handler (checkHandler), the    *)
(* admission gate (concurrencyLimiter) and the wiring of the two listeners *)
(* (main).                                                                 *)
(*                                                                         *)
(* Strings and byte slices are sequences of one-character strings.         *)
(* SHA-256 is modelled by a 16-bit polynomial digest: a deterministic      *)
(* function of the bytes written, in the order written.                    *)
(***************************************************************************)
EXTENDS Integers, Sequences, FiniteSets, TLC

\* Bounds of the model.
MaxNodes == 2      \* entries (files and directories) below the tree root
MaxReqs == 3       \* requests over the lifetime of the process
MaxCap == 2        \* largest configured MaxClients
BuildReqs == 1     \* requests in the specification of the build (SpecBuild)

VARIABLES
    alive,        \* FALSE once log.Fatal (os.Exit) or an unrecovered panic ended the process
    pc,           \* position of the main goroutine in main()
    ppc,          \* position of the patch goroutine (main.go:121-128)
    tree,         \* the file tree below config.GameFolder (the environment)
    cfgFile,      \* what the configuration file holds (the environment)
    config,       \* var config Config
    folderData,   \* var folderData DirData
    hasher,       \* bytes written so far to loadFolderData's tree-wide hasher
    stack,        \* WalkDir's pending entries, next to visit first
    nbuilds,      \* how many times loadFolderData ran to its last line
    semLen,       \* number of elements buffered in the channel sem
    sendq,        \* goroutines blocked in "sem <- struct{}{}", oldest first
    req,          \* the requests: endpoint, If-None-Match, position, response
    sent,         \* the 200 responses to /check written so far
    ioErr,        \* TRUE once the build met an I/O error
    listenErr     \* the listeners whose ListenAndServe returned an error

vars == <<alive, pc, ppc, tree, cfgFile, config, folderData, hasher, stack, nbuilds,
          semLen, sendq, req, sent, ioErr, listenErr>>

-----------------------------------------------------------------------------
(* Bytes and strings *)

\* The byte value of each character the model uses.
ByteOf ==
    ("\t" :> 9) @@ ("\n" :> 10) @@ ("\"" :> 34) @@ ("." :> 46) @@ ("/" :> 47)
    @@ ("0" :> 48) @@ ("1" :> 49) @@ ("2" :> 50) @@ ("3" :> 51) @@ ("4" :> 52)
    @@ ("5" :> 53) @@ ("6" :> 54) @@ ("7" :> 55) @@ ("8" :> 56) @@ ("9" :> 57)
    @@ ("W" :> 87) @@ ("\\" :> 92)
    @@ ("a" :> 97) @@ ("b" :> 98) @@ ("c" :> 99) @@ ("d" :> 100) @@ ("e" :> 101)
    @@ ("f" :> 102) @@ ("g" :> 103) @@ ("i" :> 105) @@ ("k" :> 107)
    @@ ("p" :> 112) @@ ("t" :> 116) @@ ("x" :> 120) @@ ("y" :> 121)

Byte(c) == ByteOf[c]

\* Go's string comparison a < b: bytewise, a proper prefix is smaller.
RECURSIVE StrLess(_, _)
StrLess(a, b) ==
    IF b = <<>> THEN FALSE
    ELSE IF a = <<>> THEN TRUE
    ELSE IF Head(a) = Head(b) THEN StrLess(Tail(a), Tail(b))
    ELSE Byte(Head(a)) < Byte(Head(b))

HasPrefix(s, p) == Len(s) >= Len(p) /\ SubSeq(s, 1, Len(p)) = p

HasSuffix(s, p) == Len(s) >= Len(p) /\ SubSeq(s, Len(s) - Len(p) + 1, Len(s)) = p

TrimPrefix(s, p) == IF HasPrefix(s, p) THEN SubSeq(s, Len(p) + 1, Len(s)) ELSE s

\* strings.ReplaceAll(s, old, new) for one-character old and new.
ReplaceAll(s, old, new) == [i \in 1..Len(s) |-> IF s[i] = old THEN new ELSE s[i]]

\* The path separator of the platform the model runs on (os.PathSeparator).
Separator == "/"

\* filepath.Join(dir, name) for a clean dir and a single name.
Join(dir, name) ==
    IF dir # <<>> /\ dir[Len(dir)] = Separator THEN dir \o name
    ELSE dir \o <<Separator>> \o name

-----------------------------------------------------------------------------
(* Digests *)

HexDigits == <<"0", "1", "2", "3", "4", "5", "6", "7",
               "8", "9", "a", "b", "c", "d", "e", "f">>

\* hash.Hash: the state after Write(bytes[i..]) on state h.
RECURSIVE HashWrite(_, _, _)
HashWrite(h, bytes, i) ==
    IF i > Len(bytes) THEN h
    ELSE HashWrite((h * 31 + Byte(bytes[i])) % 65536, bytes, i + 1)

\* sha256.New() followed by Write(bytes) and Sum(nil): the digest bytes.
Sha256Sum(bytes) ==
    LET h == HashWrite(7, bytes, 1) IN <<h \div 256, h % 256>>

\* hex.EncodeToString: two lowercase hex digits per byte.
RECURSIVE EncodeToString(_)
EncodeToString(bs) ==
    IF bs = <<>> THEN <<>>
    ELSE <<HexDigits[(Head(bs) \div 16) + 1], HexDigits[(Head(bs) % 16) + 1]>>
         \o EncodeToString(Tail(bs))

\* fmt.Sprintf("\"%s\"", s)
Quote(s) == <<"\"">> \o s \o <<"\"">>

-----------------------------------------------------------------------------
(* The file tree *)

File(dir, name, data) == [dir |-> dir, name |-> name, isDir |-> FALSE, data |-> data]

Dir(dir, name) == [dir |-> dir, name |-> name, isDir |-> TRUE, data |-> <<>>]

\* The marker suffix of main.go:62.
GitKeep == <<".", "g", "i", "t", "k", "e", "e", "p">>

\* The entries a tree is drawn from: dir is the list of directory names from
\* the root down to the entry's parent.
Pool ==
    { File(<<>>, <<"a">>, <<"x">>),
      File(<<>>, <<"a">>, <<"y">>),
      File(<<>>, GitKeep, <<"x">>),
      File(<<>>, <<"a", "\\", "b">>, <<"x">>),
      Dir(<<>>, <<"a">>),
      File(<<<<"a">>>>, <<"b">>, <<"x">>),
      File(<<<<"a">>>>, <<"b">> \o GitKeep, <<"y">>) }

\* A tree: names are unique within a directory, and every entry's parent
\* directory is in the tree.
WellFormed(t) ==
    /\ \A m, n \in t : (m.dir = n.dir /\ m.name = n.name) => m = n
    /\ \A n \in t : n.dir # <<>> =>
          \E d \in t : /\ d.isDir
                       /\ d.dir = SubSeq(n.dir, 1, Len(n.dir) - 1)
                       /\ d.name = n.dir[Len(n.dir)]

Trees == {t \in SUBSET Pool : Cardinality(t) <= MaxNodes /\ WellFormed(t)}

\* config.GameFolder after filepath.Abs: an absolute, clean path.
GameFolders == { <<"/">>, <<"/", "g">> }

\* The entries of directory e (an entry of the walk) as fs.DirEntry values
\* with the path WalkDir gives them.
Entries(t, e) ==
    { [path |-> Join(e.path, n.name), name |-> n.name, comps |-> Append(e.comps, n.name),
       isDir |-> n.isDir, data |-> n.data] : n \in {m \in t : m.dir = e.comps} }

\* The orders in which the operating system may list a set of entries.
Listings(S) ==
    {s \in [1..Cardinality(S) -> S] : \A i, j \in 1..Cardinality(S) : s[i] = s[j] => i = j}

RECURSIVE Insert(_, _)
Insert(e, s) ==
    IF s = <<>> THEN <<e>>
    ELSE IF StrLess(e.name, Head(s).name) THEN <<e>> \o s
    ELSE <<Head(s)>> \o Insert(e, Tail(s))

RECURSIVE SortByName(_)
SortByName(s) == IF s = <<>> THEN <<>> ELSE Insert(Head(s), SortByName(Tail(s)))

\* A directory read that keeps the order of the operating system.
ReadDirUnsorted(listing) == listing

\* os.ReadDir on a listing the operating system returned: sorted by filename.
ReadDir(listing) == SortByName(listing)

\* The root as WalkDir visits it first.
RootEntry(root) ==
    [path |-> root, name |-> <<>>, comps |-> <<>>, isDir |-> TRUE, data |-> <<>>]

-----------------------------------------------------------------------------
(* loadFolderData *)

\* main.go:74: the file's checksum.
Checksum(data) == EncodeToString(Sha256Sum(data))

\* main.go:75: the path as listed in the manifest.
Rel(path, root) == ReplaceAll(TrimPrefix(path, root), "\\", "/")

\* main.go:76: fmt.Sprintf("%s\t%s\n", checksum, rel)
Line(checksum, rel) == checksum \o <<"\t">> \o rel \o <<"\n">>

\* A hasher that is given the line without its terminator.
HasherInputUnterminated(line) == SubSeq(line, 1, Len(line) - 1)

\* main.go:78: what hasher.Write is given for a line.
HasherInput(line) == line

\* main.go:84: the aggregate validator.
ChecksumHeader(hashed) == Quote(EncodeToString(Sha256Sum(hashed)))

\* A callback that leaves out directories only.
walkDirFnNoMarker(e, root, err, io) ==
    IF err # "none" THEN [fatal |-> TRUE, line |-> <<>>]
    ELSE IF e.isDir THEN [fatal |-> FALSE, line |-> <<>>]
    ELSE IF io # "ok" THEN [fatal |-> TRUE, line |-> <<>>]
    ELSE [fatal |-> FALSE, line |-> Line(Checksum(e.data), Rel(e.path, root))]

\* A callback that skips what it cannot read instead of calling log.Fatal.
walkDirFnLenient(e, root, err, io) ==
    IF err # "none" \/ e.isDir \/ HasSuffix(e.path, GitKeep) \/ io # "ok"
    THEN [fatal |-> FALSE, line |-> <<>>]
    ELSE [fatal |-> FALSE, line |-> Line(Checksum(e.data), Rel(e.path, root))]

\* The callback of main.go:58-80 on entry e: err is the error WalkDir passes
\* ("none", "lstat", "readdir"), io the outcome of opening and reading the
\* file ("ok", "open", "read"). fatal: log.Fatal was called; line: the line
\* appended (empty when the entry is skipped).
walkDirFn(e, root, err, io) ==
    IF err # "none" THEN [fatal |-> TRUE, line |-> <<>>]
    ELSE IF e.isDir \/ HasSuffix(e.path, GitKeep) THEN [fatal |-> FALSE, line |-> <<>>]
    ELSE IF io # "ok" THEN [fatal |-> TRUE, line |-> <<>>]
    ELSE [fatal |-> FALSE, line |-> Line(Checksum(e.data), Rel(e.path, root))]

-----------------------------------------------------------------------------
(* checkHandler and the response writer *)

\* main.go:103: the name of the response header.
ETag == <<"E", "T", "a", "g">>

Call(op, key, val, code) == [op |-> op, key |-> key, val |-> val, code |-> code]

\* A handler that sets the ETag after the status line went out.
checkHandlerLateETag(etag, force, fd) ==
    IF ~force /\ etag = fd.ChecksumHeader
    THEN << Call("WriteHeader", <<>>, <<>>, 304) >>
    ELSE << Call("WriteHeader", <<>>, <<>>, 200),
            Call("Set", ETag, fd.ChecksumHeader, 0),
            Call("Write", <<>>, fd.ChecksumsBody, 0) >>

\* A handler that sends the digest without the quotes it compares with.
checkHandlerBareETag(etag, force, fd) ==
    IF ~force /\ etag = fd.ChecksumHeader
    THEN << Call("WriteHeader", <<>>, <<>>, 304) >>
    ELSE << Call("Set", ETag, SubSeq(fd.ChecksumHeader, 2, Len(fd.ChecksumHeader) - 1), 0),
            Call("WriteHeader", <<>>, <<>>, 200),
            Call("Write", <<>>, fd.ChecksumsBody, 0) >>

\* A handler that also accepts the weak form W/"..." of the validator.
checkHandlerWeak(etag, force, fd) ==
    IF ~force /\ TrimPrefix(etag, <<"W", "/">>) = fd.ChecksumHeader
    THEN << Call("WriteHeader", <<>>, <<>>, 304) >>
    ELSE << Call("Set", ETag, fd.ChecksumHeader, 0),
            Call("WriteHeader", <<>>, <<>>, 200),
            Call("Write", <<>>, fd.ChecksumsBody, 0) >>

\* A handler that ignores config.Force.
checkHandlerUnforced(etag, force, fd) ==
    IF etag = fd.ChecksumHeader
    THEN << Call("WriteHeader", <<>>, <<>>, 304) >>
    ELSE << Call("Set", ETag, fd.ChecksumHeader, 0),
            Call("WriteHeader", <<>>, <<>>, 200),
            Call("Write", <<>>, fd.ChecksumsBody, 0) >>

\* main.go:97-106: the calls checkHandler makes on its http.ResponseWriter,
\* in order, for a request whose r.Header.Get("If-None-Match") is etag.
checkHandler(etag, force, fd) ==
    IF ~force /\ etag = fd.ChecksumHeader
    THEN << Call("WriteHeader", <<>>, <<>>, 304) >>
    ELSE << Call("Set", ETag, fd.ChecksumHeader, 0),
            Call("WriteHeader", <<>>, <<>>, 200),
            Call("Write", <<>>, fd.ChecksumsBody, 0) >>

\* The response net/http sends for a sequence of calls: the status of the
\* first WriteHeader (200 when Write comes first), the headers set before it,
\* and the bytes written, none of which are sent with a 304.
FirstWrite(calls) ==
    IF \E i \in 1..Len(calls) : calls[i].op \in {"WriteHeader", "Write"}
    THEN CHOOSE i \in 1..Len(calls) :
            /\ calls[i].op \in {"WriteHeader", "Write"}
            /\ \A j \in 1..(i - 1) : calls[j].op \notin {"WriteHeader", "Write"}
    ELSE Len(calls) + 1

RECURSIVE Written(_, _)
Written(calls, from) ==
    IF from > Len(calls) THEN <<>>
    ELSE (IF calls[from].op = "Write" THEN calls[from].val ELSE <<>>)
         \o Written(calls, from + 1)

Respond(calls) ==
    LET w == FirstWrite(calls)
        status == IF w <= Len(calls) /\ calls[w].op = "WriteHeader"
                  THEN calls[w].code ELSE 200
    IN [status |-> status,
        header |-> {<<calls[i].key, calls[i].val>> :
                       i \in {j \in 1..(w - 1) : calls[j].op = "Set"}},
        body   |-> IF status = 304 THEN <<>> ELSE Written(calls, 1)]

NoResponse == [status |-> 0, header |-> {}, body |-> <<>>]

-----------------------------------------------------------------------------
(* concurrencyLimiter and the channel sem *)

\* A limiter that takes a capacity of zero to mean no limit.
CanSendZeroUnlimited(len, cap) == len < cap \/ cap = 0

\* A send that goes through with the buffer already full.
CanSendWhenFull(len, cap) == len <= cap

\* A send on a channel with len elements buffered and capacity cap proceeds
\* at once when the buffer has room; otherwise the sender blocks.
CanSend(len, cap) == len < cap

\* A receive that frees a place in the buffer and resumes no blocked sender.
ChanRecvNoWake(len, q) == [len |-> len - 1, q |-> q, woken |-> {}]

\* A receive from a channel holding len elements with senders q blocked: the
\* oldest blocked sender's element takes the place of the one received and
\* that sender resumes; with no sender blocked the buffer shrinks.
ChanRecv(len, q) ==
    IF q # <<>> THEN [len |-> len, q |-> Tail(q), woken |-> {Head(q)}]
    ELSE [len |-> len - 1, q |-> q, woken |-> {}]

\* A receive written after h.ServeHTTP instead of deferred: a panic skips it.
RunsAfterReturnOnly(st) == st = "returned"

\* main.go:92: the deferred receive runs however h.ServeHTTP ended.
RunsDeferred(st) == st \in {"returned", "panicked"}

\* A wiring that registers /check outside the limiter.
LimitedAssetsOnly(ep) == ep = "asset"

\* A wiring that puts the image file server behind the limiter too.
LimitedAll(ep) == TRUE

\* main.go:116-118, 124, 131: the endpoints served behind concurrencyLimiter.
Limited(ep) == ep \in {"check", "asset"}

Endpoints == {"check", "asset", "image"}

-----------------------------------------------------------------------------
(* main *)

\* A main that starts the patch goroutine before it builds the manifest.
AfterGoFirst(p) ==
    CASE p = "loadConfig" -> "go"
      [] p = "go" -> "loadFolderData"
      [] p = "loadFolderData" -> "ListenAndServe"
      [] p = "ListenAndServe" -> "serving"

\* The order of main's statements (main.go:112-134).
After(p) ==
    CASE p = "loadConfig" -> "loadFolderData"
      [] p = "loadFolderData" -> "go"
      [] p = "go" -> "ListenAndServe"
      [] p = "ListenAndServe" -> "serving"

Reqs == 1..MaxReqs

Configs ==
    [GameFolder : GameFolders, Force : BOOLEAN, MaxClients : (-1)..MaxCap]

Idle == [ep |-> "none", inm |-> <<>>, st |-> "idle", calls |-> <<>>, resp |-> NoResponse]

\* A finished request: st is "done" after the handler returned, "aborted"
\* after net/http recovered its panic and closed the connection.
Done(st) == [ep |-> "none", inm |-> <<>>, st |-> st, calls |-> <<>>, resp |-> NoResponse]

\* The positions of a request that is inside the inner handler h: "inner"
\* when its send on sem went through at once, "resumed" when it was blocked
\* and a receive let it through.
InInner == {"inner", "resumed"}

Final(end) == IF end = "panicked" THEN "aborted" ELSE "done"

\* The state at the start of main, for a tree among trees, a configuration
\* file among cfgs and n requests to come.
InitWith(trees, cfgs, n) ==
    /\ alive = TRUE
    /\ pc = "loadConfig"
    /\ ppc = "none"
    /\ tree \in trees
    /\ cfgFile \in cfgs
    /\ config = [GameFolder |-> <<>>, Force |-> FALSE, MaxClients |-> 0]
    /\ folderData = [ChecksumHeader |-> <<>>, ChecksumsBody |-> <<>>]
    /\ hasher = <<>>
    /\ stack = <<>>
    /\ nbuilds = 0
    /\ semLen = 0
    /\ sendq = <<>>
    /\ req = [r \in 1..n |-> Idle]
    /\ sent = {}
    /\ ioErr = FALSE
    /\ listenErr = {}

Init == InitWith(Trees, Configs, MaxReqs)

\* log.Fatal, or a panic no one recovers: the process ends.
Exit == alive' = FALSE

\* main.go:112, 37-53: the configuration is read, or the process ends.
LoadConfig ==
    /\ alive /\ pc = "loadConfig"
    /\ \/ /\ Exit
          /\ UNCHANGED <<pc, config>>
       \/ /\ config' = cfgFile
          /\ pc' = After("loadConfig")
          /\ UNCHANGED alive
    /\ UNCHANGED <<ppc, tree, cfgFile, folderData, hasher, stack, nbuilds, semLen, sendq,
                   req, sent, ioErr, listenErr>>

\* main.go:57-58: WalkDir's Lstat of the root; on an error the callback is
\* called with it.
WalkDirRoot ==
    /\ alive /\ pc = "loadFolderData"
    /\ \E err \in {"none", "lstat"} :
         LET e == RootEntry(config.GameFolder)
             r == walkDirFn(e, config.GameFolder, err, "ok")
         IN /\ ioErr' = (ioErr \/ err # "none")
            /\ IF r.fatal
               THEN Exit /\ UNCHANGED <<pc, stack>>
               ELSE /\ UNCHANGED alive
                    /\ IF err = "none"
                       THEN pc' = "walk" /\ stack' = <<e>>
                       ELSE pc' = "walk" /\ stack' = <<>>
    /\ hasher' = <<>>
    /\ UNCHANGED <<ppc, tree, cfgFile, config, folderData, nbuilds, semLen, sendq, req, sent,
                   listenErr>>

\* main.go:58-80: WalkDir visits the next entry: the callback runs on it; a
\* directory is then read (sorted by name) and its entries come next, and a
\* read error is reported to the callback in a second call.
WalkDirVisit ==
    /\ alive /\ pc = "walk" /\ stack # <<>>
    /\ LET e == Head(stack) IN
       \E io \in {"ok", "open", "read"}, err \in {"none", "readdir"},
          listing \in Listings(Entries(tree, e)) :
         /\ e.isDir => io = "ok"
         /\ ~e.isDir => err = "none" /\ listing = <<>>
         /\ (~e.isDir /\ HasSuffix(e.path, GitKeep)) => io = "ok"
         /\ LET r == walkDirFn(e, config.GameFolder, "none", io)
                r2 == walkDirFn(e, config.GameFolder, err, "ok")
                fatal == r.fatal \/ (e.isDir /\ r2.fatal)
            IN /\ ioErr' = (ioErr \/ io # "ok" \/ err # "none")
               /\ IF fatal
                  THEN Exit /\ UNCHANGED <<stack, folderData, hasher>>
                  ELSE /\ UNCHANGED alive
                       /\ stack' = (IF e.isDir /\ err = "none"
                                    THEN ReadDir(listing) ELSE <<>>) \o Tail(stack)
                       /\ folderData' =
                            [folderData EXCEPT !.ChecksumsBody = @ \o r.line]
                       /\ hasher' = hasher \o
                            (IF r.line = <<>> THEN <<>> ELSE HasherInput(r.line))
    /\ UNCHANGED <<pc, ppc, tree, cfgFile, config, nbuilds, semLen, sendq, req, sent,
                   listenErr>>

\* main.go:81-84: WalkDir returned nil; the validator is the quoted digest.
WalkDirDone ==
    /\ alive /\ pc = "walk" /\ stack = <<>>
    /\ folderData' = [folderData EXCEPT !.ChecksumHeader = ChecksumHeader(hasher)]
    /\ nbuilds' = nbuilds + 1
    /\ pc' = After("loadFolderData")
    /\ UNCHANGED <<alive, ppc, tree, cfgFile, config, hasher, stack, semLen, sendq, req,
                   sent, ioErr, listenErr>>

\* main.go:121: the go statement starts the patch goroutine.
GoPatch ==
    /\ alive /\ pc = "go"
    /\ ppc' = "concurrencyLimiter"
    /\ pc' = After("go")
    /\ UNCHANGED <<alive, tree, cfgFile, config, folderData, hasher, stack, nbuilds, semLen,
                   sendq, req, sent, ioErr, listenErr>>

\* main.go:124, 89: make(chan struct{}, max) panics for a negative max, and
\* a panic in this goroutine ends the process.
PatchLimiter ==
    /\ alive /\ ppc = "concurrencyLimiter"
    /\ IF config.MaxClients < 0
       THEN Exit /\ UNCHANGED <<ppc, semLen, sendq>>
       ELSE /\ semLen' = 0
            /\ sendq' = <<>>
            /\ ppc' = "ListenAndServe"
            /\ UNCHANGED alive
    /\ UNCHANGED <<pc, tree, cfgFile, config, folderData, hasher, stack, nbuilds, req, sent,
                   ioErr, listenErr>>

\* An error of ListenAndServe that the patch goroutine only logs before it
\* returns.
OnListenErrorLogged(task) == IF task = "patch" THEN "Println" ELSE "Fatal"

\* main.go:125-127, 134-136: what either task does with the error that
\* ListenAndServe returned.
OnListenError(task) == "Fatal"

\* main.go:125-127: the patch listener binds and serves, or log.Fatal.
PatchListen ==
    /\ alive /\ ppc = "ListenAndServe"
    /\ \/ /\ listenErr' = listenErr \cup {"patch"}
          /\ IF OnListenError("patch") = "Fatal"
             THEN Exit /\ UNCHANGED ppc
             ELSE ppc' = "ended" /\ UNCHANGED alive
       \/ ppc' = "serving" /\ UNCHANGED <<alive, listenErr>>
    /\ UNCHANGED <<pc, tree, cfgFile, config, folderData, hasher, stack, nbuilds, semLen,
                   sendq, req, sent, ioErr>>

\* main.go:131-136: the image listener binds and serves, or log.Fatal.
ImageListen ==
    /\ alive /\ pc = "ListenAndServe"
    /\ \/ /\ listenErr' = listenErr \cup {"image"}
          /\ IF OnListenError("image") = "Fatal"
             THEN Exit /\ UNCHANGED pc
             ELSE pc' = "ended" /\ UNCHANGED alive
       \/ pc' = After("ListenAndServe") /\ UNCHANGED <<alive, listenErr>>
    /\ UNCHANGED <<ppc, tree, cfgFile, config, folderData, hasher, stack, nbuilds, semLen,
                   sendq, req, sent, ioErr>>

\* Whether the listener of endpoint ep accepts requests.
Listening(ep) == IF ep = "image" THEN pc = "serving" ELSE ppc = "serving"

\* The values a client may send as If-None-Match: none, a validator it was
\* sent, the validator of the served tree, and the weak form of that one.
Inms ==
    LET h == folderData.ChecksumHeader IN
    { <<>>, h, <<"W", "/">> \o h }
    \cup {p[2] : p \in UNION {x.header : x \in sent}}

\* A send that gives up when the buffer is full instead of blocking.
SendOrReject == "rejected"

\* main.go:91: the send is a plain statement, with no select, default or
\* timeout around it: a goroutine whose send cannot proceed blocks.
SendFull == "blocked"

\* A handler that builds the manifest again, onto the one in place.
AfterServeHTTPRebuilt(fd, ep) ==
    IF ep = "check" THEN [fd EXCEPT !.ChecksumsBody = @ \o @] ELSE fd

\* main.go:93, 97-106, 118, 131: folderData after a handler ran; checkHandler
\* only reads it and the file servers do not know it.
AfterServeHTTP(fd, ep) == fd

\* A request arrives (requests are numbered in order of arrival). On the
\* patch endpoint it runs main.go:91, the send on sem: with room in the
\* buffer it goes on to the inner handler, otherwise it blocks. On the image
\* endpoint the handler is the file server itself.
Arrive(r) ==
    /\ alive /\ req[r].st = "idle"
    /\ r > 1 => req[r - 1].st # "idle"
    /\ \E ep \in Endpoints, inm \in Inms :
         /\ Listening(ep)
         /\ ep # "check" => inm = <<>>
         /\ IF ~Limited(ep)
            THEN /\ req' = [req EXCEPT ![r] = [@ EXCEPT !.ep = ep, !.inm = inm,
                                                        !.st = "inner"]]
                 /\ UNCHANGED <<semLen, sendq>>
            ELSE IF CanSend(semLen, config.MaxClients)
            THEN /\ req' = [req EXCEPT ![r] = [@ EXCEPT !.ep = ep, !.inm = inm,
                                                        !.st = "inner"]]
                 /\ semLen' = semLen + 1
                 /\ UNCHANGED sendq
            ELSE /\ req' = [req EXCEPT ![r] = [@ EXCEPT !.ep = ep, !.inm = inm,
                                                        !.st = SendFull]]
                 /\ sendq' = IF SendFull = "blocked" THEN Append(sendq, r) ELSE sendq
                 /\ UNCHANGED semLen
    /\ UNCHANGED <<alive, pc, ppc, tree, cfgFile, config, folderData, hasher, stack, nbuilds,
                   sent, ioErr, listenErr>>

\* main.go:93, 117-118, 131: the inner handler runs to its end. /check is
\* checkHandler; the asset file server returns or panics (net/http recovers
\* a handler's panic after the deferred calls have run). A request that is
\* not behind the limiter is finished.
Serve(r) ==
    /\ alive /\ req[r].st \in InInner
    /\ \E end \in {"returned", "panicked"} :
         /\ req[r].ep # "asset" => end = "returned"
         /\ LET calls == IF req[r].ep = "check"
                         THEN checkHandler(req[r].inm, config.Force, folderData)
                         ELSE <<>>
                resp == IF req[r].ep = "check" THEN Respond(calls) ELSE NoResponse
            IN /\ req' = [req EXCEPT ![r] =
                            IF Limited(req[r].ep)
                            THEN [@ EXCEPT !.st = end, !.calls = calls, !.resp = resp]
                            ELSE Done(Final(end))]
               /\ sent' = IF resp.status = 200 THEN sent \cup {resp} ELSE sent
    /\ folderData' = AfterServeHTTP(folderData, req[r].ep)
    /\ UNCHANGED <<alive, pc, ppc, tree, cfgFile, config, hasher, stack, nbuilds,
                   semLen, sendq, ioErr, listenErr>>

\* main.go:92: the deferred receive from sem; the request is finished.
Release(r) ==
    /\ alive /\ req[r].st \in {"returned", "panicked"}
    /\ IF RunsDeferred(req[r].st)
       THEN LET c == ChanRecv(semLen, sendq) IN
            /\ semLen' = c.len
            /\ sendq' = c.q
            /\ req' = [q \in DOMAIN req |-> IF q = r THEN Done(Final(req[r].st))
                                      ELSE IF q \in c.woken
                                      THEN [req[q] EXCEPT !.st = "resumed"]
                                      ELSE req[q]]
       ELSE /\ req' = [req EXCEPT ![r] = Done(Final(req[r].st))]
            /\ UNCHANGED <<semLen, sendq>>
    /\ UNCHANGED <<alive, pc, ppc, tree, cfgFile, config, folderData, hasher, stack, nbuilds,
                   sent, ioErr, listenErr>>

Next ==
    \/ LoadConfig
    \/ WalkDirRoot
    \/ WalkDirVisit
    \/ WalkDirDone
    \/ GoPatch
    \/ PatchLimiter
    \/ PatchListen
    \/ ImageListen
    \/ \E r \in DOMAIN req : Arrive(r)
    \/ \E r \in DOMAIN req : Serve(r)
    \/ \E r \in DOMAIN req : Release(r)

Spec == Init /\ [][Next]_vars

\* The build over every tree, with BuildReqs requests to come.
InitBuild == InitWith(Trees, Configs, BuildReqs)

SpecBuild == InitBuild /\ [][Next]_vars

\* The serving of MaxReqs requests over an empty game folder and over one
\* that holds the single file a: what is served depends on the tree only
\* through folderData.
ServedTrees == {t \in Trees : t \subseteq {File(<<>>, <<"a">>, <<"x">>)}}

InitServe == InitWith(ServedTrees, Configs, MaxReqs)

SpecServe == InitServe /\ [][Next]_vars

\* The scheduling the limiter is specified under: an admitted request's
\* inner handler ends, and its deferred receive then runs.
Fairness == \A r \in Reqs : WF_vars(Serve(r)) /\ WF_vars(Release(r))

\* The liveness of admission is checked for the capacities 1 and 2, over an
\* empty game folder at "/g" with Force off: the limiter reads neither the
\* tree nor the manifest.
LiveConfigs ==
    {c \in Configs : c.GameFolder = <<"/", "g">> /\ ~c.Force /\ c.MaxClients \in {1, 2}}

InitLive == InitWith({{}}, LiveConfigs, MaxReqs)

SpecLive == InitLive /\ [][Next]_vars /\ Fairness

-----------------------------------------------------------------------------
(* Properties *)

\* The requests of the patch endpoint.
PatchReqs == {r \in DOMAIN req : req[r].ep \in {"check", "asset"}}

\* The patch requests executing inside the inner handler.
Executing == {r \in PatchReqs : req[r].st \in InInner}

\* The patch requests that hold a slot: inside the inner handler, or out of
\* it with the deferred receive still to run.
Holders == {r \in PatchReqs : req[r].st \in InInner \cup {"returned", "panicked"}}

Blocked == {r \in DOMAIN req : req[r].st = "blocked"}

\* C1: with capacity N >= 1, at most N patch requests are inside the inner
\* handler (or hold a slot) at any moment, and a request is blocked only
\* while N others hold the N slots.
C1_AdmissionBound ==
    config.MaxClients >= 1 =>
        /\ Cardinality(Executing) <= config.MaxClients
        /\ Cardinality(Holders) <= config.MaxClients
        /\ Blocked # {} => Cardinality(Holders) = config.MaxClients

C1_Witness ==
    /\ config.MaxClients = 2
    /\ Cardinality(Executing) = 2
    /\ Blocked # {}

\* C2: with config.Force false, a /check request whose If-None-Match equals
\* the validator gets 304 with no body; any other value (none, the weak
\* form) gets 200 with the whole body and the validator as ETag.
C2_ConditionalUnforced ==
    \A r \in DOMAIN req :
        (req[r].ep = "check" /\ req[r].st = "returned" /\ ~config.Force) =>
            IF req[r].inm = folderData.ChecksumHeader
            THEN req[r].resp.status = 304 /\ req[r].resp.body = <<>>
            ELSE /\ req[r].resp.status = 200
                 /\ req[r].resp.body = folderData.ChecksumsBody
                 /\ <<ETag, folderData.ChecksumHeader>> \in req[r].resp.header

C2_Witness ==
    /\ ~config.Force
    /\ folderData.ChecksumsBody # <<>>
    /\ \E r \in DOMAIN req : /\ req[r].ep = "check" /\ req[r].st = "returned"
                       /\ req[r].inm = folderData.ChecksumHeader
                       /\ req[r].resp.status = 304
    /\ \E r \in DOMAIN req : /\ req[r].ep = "check" /\ req[r].st = "returned"
                       /\ req[r].inm = <<"W", "/">> \o folderData.ChecksumHeader
                       /\ req[r].resp.status = 200

\* C3: with config.Force true, every /check request gets 200 with the whole
\* body and the validator as ETag, whatever its If-None-Match.
C3_Forced ==
    \A r \in DOMAIN req :
        (req[r].ep = "check" /\ req[r].st = "returned" /\ config.Force) =>
            /\ req[r].resp.status = 200
            /\ req[r].resp.body = folderData.ChecksumsBody
            /\ <<ETag, folderData.ChecksumHeader>> \in req[r].resp.header

C3_Witness ==
    /\ config.Force
    /\ folderData.ChecksumsBody # <<>>
    /\ \E r \in DOMAIN req : /\ req[r].ep = "check" /\ req[r].st = "returned"
                       /\ req[r].inm = folderData.ChecksumHeader
                       /\ req[r].resp.status = 200

\* C4: the slots taken are exactly those of the requests between admission
\* and the deferred receive, however their handlers ended: once every
\* admitted request has finished, normally or by a panic, no slot is taken.
C4_NoLeak ==
    /\ semLen = Cardinality(Holders)
    /\ (Holders = {} /\ Blocked = {}) => semLen = 0

C4_Witness ==
    /\ config.MaxClients = 1
    /\ \E r \in DOMAIN req : req[r].st = "aborted"
    /\ \E r \in DOMAIN req : req[r].st = "resumed"
    /\ semLen = 1

C6_ImageUngated ==
    \A r \in DOMAIN req :
        req[r].ep = "image" =>
            /\ req[r].st = "inner"
            /\ \A i \in 1..Len(sendq) : sendq[i] # r
            /\ semLen = Cardinality(Holders)

C6_Witness ==
    /\ config.MaxClients >= 1
    /\ Cardinality(Holders) = config.MaxClients
    /\ Blocked # {}
    /\ \E r \in DOMAIN req : req[r].ep = "image" /\ req[r].st = "inner"

\* The build is over: loadFolderData ran to its last line, once, and main is
\* past it.
Built ==
    /\ nbuilds = 1
    /\ stack = <<>>
    /\ pc \in {"go", "ListenAndServe", "serving"}

\* C7: the manifest is built once, and no listener is started and no request
\* handled before the build is over.
C7_BuiltBeforeServing ==
    /\ nbuilds <= 1
    /\ (ppc # "none" \/ pc \in {"ListenAndServe", "serving"}
          \/ \E r \in DOMAIN req : req[r].st # "idle") => Built

C7_Witness ==
    /\ Built
    /\ Len(folderData.ChecksumsBody) > 0
    /\ \E r \in DOMAIN req : req[r].ep = "check" /\ req[r].st = "inner"
    /\ \E r \in DOMAIN req : req[r].ep = "image" /\ req[r].st = "inner"

\* C8: once the build met an I/O error (Lstat of the root, reading a
\* directory, opening or reading a file) the process has ended inside the
\* build: no listener was started, no request handled, nothing served.
C8_FailFast ==
    ioErr =>
        /\ ~alive
        /\ nbuilds = 0
        /\ pc \in {"loadFolderData", "walk"}
        /\ ppc = "none"
        /\ \A r \in DOMAIN req : req[r].st = "idle"
        /\ sent = {}

C8_Witness ==
    /\ ioErr
    /\ ~alive
    /\ folderData.ChecksumsBody # <<>>

\* C9: the bytes written to the tree-wide hasher are the bytes of
\* ChecksumsBody, after every line and at the end; the validator is the
\* quoted hex digest of ChecksumsBody, and so is the ETag of every 200
\* response for the body it carries.
C9_DigestOfBody ==
    /\ hasher = folderData.ChecksumsBody
    /\ nbuilds = 1 =>
          folderData.ChecksumHeader
              = Quote(EncodeToString(Sha256Sum(folderData.ChecksumsBody)))
    /\ \A x \in sent :
          x.header = {<<ETag, Quote(EncodeToString(Sha256Sum(x.body)))>>}

C9_Witness ==
    /\ nbuilds = 1
    /\ Cardinality({i \in 1..Len(folderData.ChecksumsBody) :
                       folderData.ChecksumsBody[i] = "\n"}) = 2
    /\ sent # {}

\* The manifest of a tree as a function of the tree alone: the entries of
\* each directory in the order of their names, whatever order the operating
\* system lists them in.
RECURSIVE BodyOf(_, _, _)
RECURSIVE BodyOfAll(_, _, _)
BodyOf(t, root, e) ==
    IF e.isDir THEN BodyOfAll(t, root, Entries(t, e))
    ELSE IF HasSuffix(e.path, GitKeep) THEN <<>>
    ELSE Line(Checksum(e.data), Rel(e.path, root))

BodyOfAll(t, root, S) ==
    IF S = {} THEN <<>>
    ELSE LET m == CHOOSE x \in S : \A y \in S \ {x} : StrLess(x.name, y.name)
         IN BodyOf(t, root, m) \o BodyOfAll(t, root, S \ {m})

ManifestOf(t, root) ==
    LET body == BodyOf(t, root, RootEntry(root))
    IN [ChecksumHeader |-> Quote(EncodeToString(Sha256Sum(body))),
        ChecksumsBody |-> body]

\* C10: the manifest a build ends with (main is at the statement after
\* loadFolderData) is a function of the tree alone: every build over the same
\* tree ends with the same body and the same validator, whatever order the
\* directories were listed in.
C10_Deterministic ==
    (nbuilds = 1 /\ pc = "go") => folderData = ManifestOf(tree, config.GameFolder)

C10_Witness ==
    /\ nbuilds = 1
    /\ pc = "go"
    /\ Cardinality({n \in tree : n.dir = <<>> /\ ~n.isDir
                                  /\ ~HasSuffix(n.name, GitKeep)}) = 2
    /\ folderData = ManifestOf(tree, config.GameFolder)

\* The files of a tree that main.go:62 leaves out: those whose name ends with
\* the marker suffix.
Markers(t) == {n \in t : ~n.isDir /\ HasSuffix(n.name, GitKeep)}

\* Whether sub occurs in seq as a run of consecutive elements.
Contains(seq, sub) ==
    \E i \in 0..(Len(seq) - Len(sub)) : SubSeq(seq, i + 1, i + Len(sub)) = sub

\* C11: a file whose name ends with ".gitkeep" is in no entry of the manifest,
\* whatever it holds and wherever it lies: no line of the body ends with the
\* marker suffix, and the manifest a build ends with is the manifest of the
\* same tree with every such file removed.
C11_MarkerExcluded ==
    (nbuilds = 1 /\ pc = "go") =>
        /\ ~Contains(folderData.ChecksumsBody, GitKeep \o <<"\n">>)
        /\ folderData = ManifestOf(tree \ Markers(tree), config.GameFolder)

C11_Witness ==
    /\ nbuilds = 1
    /\ pc = "go"
    /\ Markers(tree) # {}
    /\ folderData.ChecksumsBody # <<>>
    /\ ~Contains(folderData.ChecksumsBody, GitKeep)

\* The included files of a tree: each by its path below the root (the names
\* from the root down) and its content.
Included(t) ==
    {[path |-> n.dir \o <<n.name>>, data |-> n.data] : n \in {m \in t \ Markers(t) : ~m.isDir}}

\* C12: a change of the content, the presence or the relative path of an
\* included file changes the validator: every tree whose included files
\* differ from those of the tree that was built has a manifest with another
\* validator.
C12_ChangeSensitive ==
    (nbuilds = 1 /\ pc = "go") =>
        \A t \in Trees :
            Included(t) # Included(tree) =>
                ManifestOf(t, config.GameFolder).ChecksumHeader # folderData.ChecksumHeader

\* The ETag values of the 200 responses to /check written so far.
SentETags == {p[2] : p \in {q \in UNION {x.header : x \in sent} : q[1] = ETag}}

\* C13: with Force off, a request to /check that presents as If-None-Match
\* the ETag of a 200 response of this process is answered 304 with an empty
\* body.
C13_RoundTrip ==
    ~config.Force =>
        \A r \in DOMAIN req :
            (req[r].ep = "check" /\ req[r].st = "returned" /\ req[r].inm \in SentETags) =>
                (req[r].resp.status = 304 /\ req[r].resp.body = <<>>)

C13_Witness ==
    /\ ~config.Force
    /\ \E r \in DOMAIN req :
          /\ req[r].ep = "check" /\ req[r].st = "returned"
          /\ req[r].inm \in SentETags
          /\ req[r].resp.status = 304
          /\ \E q \in 1..(r - 1) : req[q].st = "done"

\* C14: the patch listener and the image listener are started one after the
\* other without waiting and run side by side; when ListenAndServe of either
\* returns an error the whole process ends, so no endpoint goes on serving
\* after a listener failed.
C14_ListenFailureFatal ==
    listenErr # {} => ~alive

C14_Witness ==
    /\ listenErr = {"image"}
    /\ ~alive
    /\ ppc = "serving"
    /\ \E r \in DOMAIN req : req[r].ep \in {"check", "asset"} /\ req[r].st \in InInner

\* The requests inside the inner handler, by endpoint.
ExecutingOn(ep) == {r \in DOMAIN req : req[r].ep = ep /\ req[r].st \in InInner}

\* C15: /check and the asset file server draw on one pool of MaxClients
\* places: the requests executing on /check and those executing on assets
\* number MaxClients at most together, and while asset requests hold every
\* place no request to /check is inside its handler.
C15_SharedPool ==
    (ppc = "serving" /\ config.MaxClients >= 1) =>
        /\ Cardinality(ExecutingOn("check")) + Cardinality(ExecutingOn("asset"))
              <= config.MaxClients
        /\ Cardinality(ExecutingOn("asset")) = config.MaxClients =>
              ExecutingOn("check") = {}

C15_Witness ==
    /\ ppc = "serving" /\ config.MaxClients = MaxCap
    /\ Cardinality(ExecutingOn("asset")) = config.MaxClients
    /\ \E r \in DOMAIN req : req[r].ep = "check" /\ req[r].st = "blocked"

\* C16: once startup is over no handler writes the manifest: in every state
\* after the build, whatever was served since, folderData is what the build of
\* the tree produced, and every 200 response to /check carries that body and that
\* validator as ETag.
C16_ManifestFrozen ==
    Built =>
        LET m == ManifestOf(tree, config.GameFolder) IN
        /\ folderData = m
        /\ \A x \in sent : x.body = m.ChecksumsBody /\ x.header = {<<ETag, m.ChecksumHeader>>}

C16_Witness ==
    /\ Built
    /\ folderData.ChecksumsBody # <<>>
    /\ sent # {}
    /\ Cardinality({r \in DOMAIN req : req[r].st = "done"}) >= 2
    /\ \E r \in DOMAIN req : req[r].ep = "check" /\ req[r].st = "returned"
                               /\ req[r].resp.status = 200

\* C17: a 304 is a status line only: the handler calls neither Header().Set
\* nor Write on that path, so the response has no ETag and no body. On the
\* 200 path the ETag is set before WriteHeader, so the response carries it.
C17_ETagOnlyOn200 ==
    \A r \in DOMAIN req :
        (req[r].ep = "check" /\ req[r].st = "returned") =>
            LET c == req[r].calls
                resp == req[r].resp
            IN IF resp.status = 304
               THEN /\ \A i \in 1..Len(c) : c[i].op = "WriteHeader"
                    /\ resp.header = {}
                    /\ resp.body = <<>>
               ELSE /\ resp.status = 200
                    /\ \E i \in 1..Len(c) :
                          /\ c[i].op = "Set" /\ c[i].key = ETag
                          /\ \A k \in 1..i : c[k].op \notin {"WriteHeader", "Write"}
                          /\ \E k \in (i + 1)..Len(c) :
                                c[k].op = "WriteHeader" /\ c[k].code = 200
                    /\ <<ETag, folderData.ChecksumHeader>> \in resp.header

C17_Witness ==
    \E r, q \in DOMAIN req :
        /\ req[r].ep = "check" /\ req[r].st = "returned"
        /\ req[r].resp.status = 304 /\ req[r].resp.header = {}
        /\ req[q].ep = "check" /\ req[q].st = "returned"
        /\ req[q].resp.status = 200 /\ req[q].resp.header # {}

\* C18: the limiter never rejects, times out or cancels a request and never
\* answers one itself. A request that arrives on the patch endpoint is admitted
\* or starts waiting, however many wait already; a waiting request keeps
\* waiting, in the queue of blocked senders and with no response, or is
\* admitted.
C18_WaitOrAdmit ==
    [][\A r \in DOMAIN req :
         /\ (req[r].st = "idle" /\ req'[r].ep \in {"check", "asset"}) =>
                req'[r].st \in {"inner", "blocked"}
         /\ req[r].st = "blocked" =>
                /\ req'[r].st \in {"blocked", "resumed"}
                /\ req'[r].resp = NoResponse
                /\ req'[r].calls = <<>>
                /\ req'[r].st = "blocked" => \E i \in 1..Len(sendq') : sendq'[i] = r]_vars

C18_Witness ==
    /\ alive
    /\ Len(sendq) >= 1
    /\ \E r, q \in DOMAIN req :
          /\ r < q
          /\ req[r].st = "resumed"
          /\ req[q].st = "blocked"
          /\ req[q].resp = NoResponse

\* The path a line lists for the entry with names comps from the root down: a
\* forward slash before each name, backslashes written as forward slashes.
RECURSIVE ListedPath(_)
ListedPath(comps) ==
    IF comps = <<>> THEN <<>>
    ELSE <<"/">> \o ReplaceAll(Head(comps), "\\", "/") \o ListedPath(Tail(comps))

\* The body with one line for each file below directory dir of tree t whose
\* name does not end with the marker suffix, in the order of the walk: the
\* entries of a directory by name, those below a directory in its place.
RECURSIVE LinesBelow(_, _, _)
LinesBelow(t, dir, done) ==
    LET S == {n \in t : n.dir = dir} \ done IN
    IF S = {} THEN <<>>
    ELSE LET n == CHOOSE x \in S : \A y \in S \ {x} : StrLess(x.name, y.name)
             here == IF n.isDir THEN LinesBelow(t, Append(dir, n.name), {})
                     ELSE IF HasSuffix(n.name, GitKeep) THEN <<>>
                     ELSE Checksum(n.data) \o <<"\t">> \o ListedPath(Append(dir, n.name))
                            \o <<"\n">>
         IN here \o LinesBelow(t, dir, done \cup {n})

\* C19: the body a build ends with holds one line for each non-directory
\* entry whose path does not end with the marker suffix and nothing else, in
\* the order of the walk; a line is the file's digest in lowercase hex, a TAB,
\* the path below the root with forward slashes (a file a directly under the
\* root is listed as /a), and a line feed.
C19_BodyLines ==
    (nbuilds = 1 /\ pc = "go") =>
        folderData.ChecksumsBody = LinesBelow(tree, <<>>, {})

\* C20: the capacity is used as configured. With MaxClients 0 the channel is
\* unbuffered and nothing receives from it before a send went through: every
\* request on the patch endpoint is blocked in the send, none is or was inside
\* the inner handler (no place taken, no response to /check written, no
\* request finished on that endpoint), while requests on the image endpoint
\* are served.
C20_ZeroCapacityBlocks ==
    (ppc = "serving" /\ config.MaxClients = 0) =>
        /\ \A r \in DOMAIN req :
              req[r].ep \in {"check", "asset"} => req[r].st = "blocked"
        /\ \A r \in DOMAIN req : req[r].st \notin {"returned", "panicked", "resumed", "aborted"}
        /\ Len(sendq) + Cardinality({r \in DOMAIN req : req[r].ep = "image"})
             + Cardinality({r \in DOMAIN req : req[r].st = "done"})
             = Cardinality({r \in DOMAIN req : req[r].st # "idle"})
        /\ Cardinality({r \in DOMAIN req : req[r].st = "done"}) > 0 => pc = "serving"
        /\ semLen = 0
        /\ sent = {}

C20_Witness ==
    /\ alive /\ ppc = "serving" /\ config.MaxClients = 0
    /\ \E r, q \in DOMAIN req :
          /\ r < q
          /\ req[r].ep = "check" /\ req[r].st = "blocked"
          /\ req[q].ep = "image" /\ req[q].st = "inner"
    /\ \E r \in DOMAIN req : req[r].st = "done"

====
